---- MODULE Spec2Model ----
(***************************************************************************)
(* Model of the emoji-only input of src/app/app/main/TestScreen.tsx.       *)
(*                                                                         *)
(* A JavaScript string is a sequence of UTF-16 code units; a code unit is  *)
(* modelled by its integer value.  String.prototype.slice, the string      *)
(* iterator behind Array.from, Array.prototype.pop / join and codePointAt  *)
(* are modelled by what ECMAScript says they do on such sequences.         *)
(*                                                                         *)
(* The screen state is value / selection (useState, lines 131-135).  The   *)
(* openKB flag only decides whether the keyboard is drawn and is read by   *)
(* none of the text handlers, so it is not part of the model.              *)
(***************************************************************************)
EXTENDS Integers, Sequences, FiniteSets, TLC

VARIABLES
  value,     \* useState(""): the text of the field
  selection, \* useState({ start: 0, end: 0 })
  last,      \* the handler that ran last, with its argument and, for the
             \* keyboard handlers, the value and selection it started from
  call,      \* arguments of a direct call of a pure function
  ret        \* what that call returned

vars == <<value, selection, last, call, ret>>

----------------------------------------------------------------------------
(* Bounds *)

\* longest field value explored by the full screen specification
MaxLen == 3
\* longest field value explored by the keyboard-only specifications
MaxKbLen == 6
\* longest raw text handed to onChangeText
MaxRaw == 2
\* longest text handed to the pure functions
MaxTextLen == 3

----------------------------------------------------------------------------
(* UTF-16 code units *)

\* high surrogates 0xD800-0xDBFF, low surrogates 0xDC00-0xDFFF
IsHigh(u) == u >= 55296 /\ u <= 56319
IsLow(u) == u >= 56320 /\ u <= 57343

Min(a, b) == IF a < b THEN a ELSE b
Max(a, b) == IF a > b THEN a ELSE b

\* ToIntegerOrInfinity + clamping of String.prototype.slice
RelIndex(len, k) == IF k < 0 THEN Max(len + k, 0) ELSE Min(k, len)

\* input.slice(a, b)
slice(s, a, b) ==
  LET from == RelIndex(Len(s), a)
      to == RelIndex(Len(s), b)
  IN IF from >= to THEN <<>> ELSE SubSeq(s, from + 1, to)

\* input.slice(a)
sliceFrom(s, a) == slice(s, a, Len(s))

\* Array.from(string): the string iterator yields one string per code point;
\* a high surrogate followed by a low surrogate is one element, any other
\* code unit (a lone surrogate included) is an element of its own.
RECURSIVE ArrayFromAt(_, _)
ArrayFromAt(s, i) ==
  IF i > Len(s) THEN <<>>
  ELSE IF IsHigh(s[i]) /\ i < Len(s) /\ IsLow(s[i + 1])
       THEN <<SubSeq(s, i, i + 1)>> \o ArrayFromAt(s, i + 2)
       ELSE <<SubSeq(s, i, i)>> \o ArrayFromAt(s, i + 1)

ArrayFrom(s) == ArrayFromAt(s, 1)

\* units.join("")
RECURSIVE join(_)
join(units) ==
  IF Len(units) = 0 THEN <<>> ELSE Head(units) \o join(Tail(units))

\* units.pop(): removes the last element, does nothing on an empty array
pop(units) ==
  IF Len(units) = 0 THEN units ELSE SubSeq(units, 1, Len(units) - 1)

\* ch.codePointAt(0) ?? 0
codePointAt0(ch) ==
  IF Len(ch) = 0 THEN 0
  ELSE IF IsHigh(ch[1]) /\ Len(ch) >= 2 /\ IsLow(ch[2])
       THEN 65536 + (ch[1] - 55296) * 1024 + (ch[2] - 56320)
       ELSE ch[1]

----------------------------------------------------------------------------
(* The pure functions of the screen *)

insertAt(input, insert, start, end) ==
  slice(input, 0, start) \o insert \o sliceFrom(input, end)

\* variant: the caret case removes one code unit instead of one code point
deleteOneGrapheme_codeUnit(input, cursorStart, cursorEnd) ==
  IF cursorStart # cursorEnd
  THEN [nextText |-> slice(input, 0, cursorStart) \o sliceFrom(input, cursorEnd),
        nextCursor |-> cursorStart]
  ELSE IF cursorStart <= 0
  THEN [nextText |-> input, nextCursor |-> cursorStart]
  ELSE [nextText |-> slice(input, 0, cursorStart - 1) \o sliceFrom(input, cursorStart),
        nextCursor |-> cursorStart - 1]

\* variant: the range case leaves the cursor at the end of the range
deleteOneGrapheme_cursorEnd(input, cursorStart, cursorEnd) ==
  IF cursorStart # cursorEnd
  THEN [nextText |-> slice(input, 0, cursorStart) \o sliceFrom(input, cursorEnd),
        nextCursor |-> cursorEnd]
  ELSE IF cursorStart <= 0
  THEN [nextText |-> input, nextCursor |-> cursorStart]
  ELSE LET units == pop(ArrayFrom(slice(input, 0, cursorStart)))
       IN [nextText |-> join(units) \o sliceFrom(input, cursorStart),
           nextCursor |-> Len(join(units))]

\* variant: no early return at the start of the buffer, code-unit deletion
deleteOneGrapheme_noGuard(input, cursorStart, cursorEnd) ==
  IF cursorStart # cursorEnd
  THEN [nextText |-> slice(input, 0, cursorStart) \o sliceFrom(input, cursorEnd),
        nextCursor |-> cursorStart]
  ELSE [nextText |-> slice(input, 0, cursorStart - 1) \o sliceFrom(input, cursorStart),
        nextCursor |-> cursorStart - 1]

deleteOneGrapheme(input, cursorStart, cursorEnd) ==
  IF cursorStart # cursorEnd
  THEN [nextText |-> slice(input, 0, cursorStart) \o sliceFrom(input, cursorEnd),
        nextCursor |-> cursorStart]
  ELSE IF cursorStart <= 0
  THEN [nextText |-> input, nextCursor |-> cursorStart]
  ELSE LET left == slice(input, 0, cursorStart)
           right == sliceFrom(input, cursorStart)
           units == pop(ArrayFrom(left))
       IN [nextText |-> join(units) \o right,
           nextCursor |-> Len(join(units))]

\* variant: the a-z range is missing
isAsciiLetterOrDigit_noLower(code) ==
  \/ (code >= 48 /\ code <= 57)
  \/ (code >= 65 /\ code <= 90)

isAsciiLetterOrDigit(code) ==
  \/ (code >= 48 /\ code <= 57)
  \/ (code >= 65 /\ code <= 90)
  \/ (code >= 97 /\ code <= 122)

\* variant: the last Hangul syllable U+D7A3 is let through
isHangul_exclusive(code) ==
  \/ (code >= 44032 /\ code < 55203)
  \/ (code >= 4352 /\ code <= 4607)

isHangul(code) ==
  \/ (code >= 44032 /\ code <= 55203)
  \/ (code >= 4352 /\ code <= 4607)

allowedCh(ch) ==
  ~(isAsciiLetterOrDigit(codePointAt0(ch)) \/ isHangul(codePointAt0(ch)))

\* variant: allowed.join() with the default "," separator
RECURSIVE joinDefault(_)
joinDefault(units) ==
  IF Len(units) = 0 THEN <<>>
  ELSE IF Len(units) = 1 THEN Head(units)
  ELSE Head(units) \o <<44>> \o joinDefault(Tail(units))

filterNonEmoji_joinDefault(text) ==
  joinDefault(SelectSeq(ArrayFrom(text), allowedCh))

filterNonEmoji(text) == join(SelectSeq(ArrayFrom(text), allowedCh))

\* Array.from(emoji).length in handleInsert
insertAdvance(emoji) == Len(ArrayFrom(emoji))

----------------------------------------------------------------------------
(* Keyboard contents: one representative of every shape in EMOJI_SET *)

GRINNING == <<55357, 56832>>       \* U+1F600, a surrogate pair
SPARKLES == <<10024>>              \* U+2728, one BMP code unit
SUN == <<9728, 65039>>             \* U+2600 U+FE0F, BMP + variation selector
RAINCLOUD == <<55356, 57127, 65039>> \* U+1F327 U+FE0F, pair + variation selector

EMOJI_SET == {GRINNING, SPARKLES, SUN, RAINCLOUD}

----------------------------------------------------------------------------
(* Texts the environment can supply *)

RECURSIVE SeqsUpTo(_, _)
SeqsUpTo(S, n) ==
  IF n = 0 THEN {<<>>}
  ELSE LET shorter == SeqsUpTo(S, n - 1)
       IN shorter \cup {Append(s, u) : s \in {t \in shorter : Len(t) = n - 1}, u \in S}

\* 'a', Hangul syllable U+AC00, the high half of U+1F600
RawUnits == {97, 44032, 55357}
RawTexts == SeqsUpTo(RawUnits, MaxRaw)

\* '9', 'z', '{', U+11FF, U+1200, U+AC00, U+D7A3, U+D7A4, sparkles,
\* the two halves of U+1F600
TextUnits == {57, 122, 123, 4607, 4608, 44032, 55203, 55204, 10024, 55357, 56832}
Texts == SeqsUpTo(TextUnits, MaxTextLen)

\* sparkles, U+FE0F, the two halves of U+1F600
EditUnits == {10024, 65039, 55357, 56832}
EditTexts == SeqsUpTo(EditUnits, MaxTextLen)

----------------------------------------------------------------------------
(* Screen handlers *)

NoCall == [fn |-> "none"]
NoLast == [op |-> "init"]
Caret(c) == [start |-> c, end |-> c]

handleInsert(emoji) ==
  LET next == insertAt(value, emoji, selection.start, selection.end)
      nextCursor == selection.start + insertAdvance(emoji)
  IN /\ value' = next
     /\ selection' = Caret(nextCursor)
     /\ last' = [op |-> "insert", value |-> value, selection |-> selection,
                 arg |-> emoji]
     /\ UNCHANGED <<call, ret>>

handleBackspace ==
  LET r == deleteOneGrapheme(value, selection.start, selection.end)
  IN /\ value' = r.nextText
     /\ selection' = Caret(r.nextCursor)
     /\ last' = [op |-> "backspace", value |-> value, selection |-> selection]
     /\ UNCHANGED <<call, ret>>

\* onChangeText={(t) => setValue(filterNonEmoji(t))}: the selection is kept
onChangeText(t) ==
  /\ value' = filterNonEmoji(t)
  /\ last' = [op |-> "changeText", arg |-> t]
  /\ UNCHANGED <<selection, call, ret>>

\* onSelectionChange={(e) => setSelection(e.nativeEvent.selection)}
onSelectionChange(sel) ==
  /\ selection' = sel
  /\ last' = [op |-> "selectionChange"]
  /\ UNCHANGED <<value, call, ret>>

InRange(sel, text) ==
  0 <= sel.start /\ sel.start <= sel.end /\ sel.end <= Len(text)

Ranges(text) ==
  {[start |-> s, end |-> e] : s \in 0..Len(text), e \in 0..Len(text)}

\* the part of the unbounded state space that is explored
Within(cap) == Len(value') <= cap /\ selection'.end <= cap

Insert == \E emoji \in EMOJI_SET : handleInsert(emoji) /\ Within(MaxLen)
KbInsert == \E emoji \in EMOJI_SET : handleInsert(emoji) /\ Within(MaxKbLen)
Backspace == handleBackspace
ChangeText == \E t \in RawTexts : onChangeText(t)
\* the platform reports a selection only when it moved, always inside the text
SelectionChange ==
  \E sel \in Ranges(value) :
     /\ InRange(sel, value)
     /\ sel # selection
     /\ onSelectionChange(sel)

Init ==
  /\ value = <<>>
  /\ selection = Caret(0)
  /\ last = NoLast
  /\ call = NoCall
  /\ ret = NoCall

Next == Insert \/ Backspace \/ ChangeText \/ SelectionChange

Spec == Init /\ [][Next]_vars

\* keyboard only: insertions and backspaces from the empty field
KbNext == KbInsert \/ Backspace
SpecKb == Init /\ [][KbNext]_vars

\* insertions only, from the empty field
SpecIns == Init /\ [][KbInsert]_vars

----------------------------------------------------------------------------
(* deleteOneGrapheme on every text and in-range selection: the field holds  *)
(* the text, the function is applied to it directly (call / ret) and        *)
(* through the backspace key.                                               *)

EditInit ==
  /\ value \in EditTexts
  /\ selection \in Ranges(value)
  /\ InRange(selection, value)
  /\ last = NoLast
  /\ call = [fn |-> "deleteOneGrapheme", input |-> value,
             cursorStart |-> selection.start, cursorEnd |-> selection.end]
  /\ ret = NoCall

CallDeleteOneGrapheme ==
  /\ call.fn = "deleteOneGrapheme"
  /\ ret = NoCall
  /\ ret' = [fn |-> "deleteOneGrapheme",
             r |-> deleteOneGrapheme(call.input, call.cursorStart, call.cursorEnd)]
  /\ UNCHANGED <<value, selection, last, call>>

EditNext == CallDeleteOneGrapheme \/ Backspace
SpecEdit == EditInit /\ [][EditNext]_vars

----------------------------------------------------------------------------
(* filterNonEmoji on every text, applied once and then to its own output *)

FilterInit ==
  /\ value = <<>>
  /\ selection = Caret(0)
  /\ last = NoLast
  /\ call \in {[fn |-> "filterNonEmoji", text |-> t] : t \in Texts}
  /\ ret = NoCall

CallFilterNonEmoji ==
  /\ call.fn = "filterNonEmoji"
  /\ ret = NoCall
  /\ ret' = [fn |-> "filterNonEmoji", out |-> filterNonEmoji(call.text)]
  /\ UNCHANGED <<value, selection, last, call>>

CallFilterAgain ==
  /\ ret.fn = "filterNonEmoji"
  /\ ret' = [fn |-> "filterNonEmoji twice", first |-> ret.out,
             out |-> filterNonEmoji(ret.out)]
  /\ UNCHANGED <<value, selection, last, call>>

FilterNext == CallFilterNonEmoji \/ CallFilterAgain
SpecFilter == FilterInit /\ [][FilterNext]_vars

----------------------------------------------------------------------------
(* Vocabulary of the properties, stated on code units and code points      *)
(* without the operators of the implementation                             *)

HighSurrogates == 55296..56319
LowSurrogates == 56320..57343
Surrogates == 55296..57343

\* digits, A-Z, a-z, Hangul syllables U+AC00-U+D7A3, Hangul Jamo U+1100-U+11FF
Disallowed ==
  (48..57) \cup (65..90) \cup (97..122) \cup (44032..55203) \cup (4352..4607)

\* the code points of a text; a lone surrogate stands for itself
RECURSIVE CodePoints(_)
CodePoints(s) ==
  IF Len(s) = 0 THEN <<>>
  ELSE IF Len(s) >= 2 /\ s[1] \in HighSurrogates /\ s[2] \in LowSurrogates
       THEN <<65536 + (s[1] - 55296) * 1024 + (s[2] - 56320)>>
            \o CodePoints(SubSeq(s, 3, Len(s)))
       ELSE <<s[1]>> \o CodePoints(Tail(s))

RECURSIVE Utf16(_)
Utf16(cps) ==
  IF Len(cps) = 0 THEN <<>>
  ELSE (IF Head(cps) >= 65536
        THEN <<55296 + ((Head(cps) - 65536) \div 1024),
               56320 + ((Head(cps) - 65536) % 1024)>>
        ELSE <<Head(cps)>>) \o Utf16(Tail(cps))

NotDisallowed(cp) == cp \notin Disallowed

RemoveAt(seq, i) == SubSeq(seq, 1, i - 1) \o SubSeq(seq, i + 1, Len(seq))

HasLoneSurrogate(s) == \E i \in 1..Len(CodePoints(s)) : CodePoints(s)[i] \in Surrogates

\* every high surrogate is directly followed by its low half and vice versa
WellPaired(s) ==
  \A i \in 1..Len(s) :
     /\ s[i] \in HighSurrogates => (i < Len(s) /\ s[i + 1] \in LowSurrogates)
     /\ s[i] \in LowSurrogates => (i > 1 /\ s[i - 1] \in HighSurrogates)

\* text[0:c] ends in a BMP code unit or in a full surrogate pair
EndsInCodePoint(s, c) ==
  \/ s[c] \notin Surrogates
  \/ (s[c] \in LowSurrogates /\ c >= 2 /\ s[c - 1] \in HighSurrogates)

LastWidth(s, c) == IF s[c] \in LowSurrogates THEN 2 ELSE 1

CaretCall ==
  /\ ret.fn = "deleteOneGrapheme"
  /\ call.cursorStart = call.cursorEnd

----------------------------------------------------------------------------
(* Claims *)

\* C1: after any sequence of insertions, backspaces, system text changes and
\* in-range selection changes, 0 <= selection.start <= selection.end <=
\* length(value) in code units.
C1_SelectionWithinText == InRange(selection, value)

\* C2: from the empty field, by insertions and backspaces only, a backspace
\* with a caret (start = end > 0) removes exactly one whole code point and
\* leaves every other code point intact.
C2_BackspaceRemovesOneCodePoint ==
  (last.op = "backspace" /\ last.selection.start = last.selection.end
     /\ last.selection.start > 0)
  => \E i \in 1..Len(CodePoints(last.value)) :
        /\ CodePoints(last.value)[i] \notin Surrogates
        /\ CodePoints(value) = RemoveAt(CodePoints(last.value), i)

\* C3: from the empty field, by insertions only, every insertion yields
\* text[0:start] + emoji + text[end:] and never leaves the two halves of a
\* surrogate pair separated.
C3_InsertNeverSplits ==
  last.op = "insert"
  => /\ value = SubSeq(last.value, 1, last.selection.start) \o last.arg
                \o SubSeq(last.value, last.selection.end + 1, Len(last.value))
     /\ WellPaired(value)

\* C4: after handleInsert(emoji) the selection is a caret at the old
\* selection start plus the code-unit length of the emoji.
C4_CaretAfterInsertedFragment ==
  last.op = "insert"
  => selection = Caret(last.selection.start + Len(last.arg))

\* C5: for a caret c with 0 < c <= length(T) where T[0:c] ends in a complete
\* code point, deleteOneGrapheme(T, c, c) gives T[0:c] without its last code
\* point followed by T[c:], the cursor at the code-unit length of the
\* shortened left part, and one code point fewer before the caret.
C5_DeleteRemovesLastCodePoint ==
  (CaretCall /\ 0 < call.cursorStart /\ call.cursorStart <= Len(call.input)
     /\ EndsInCodePoint(call.input, call.cursorStart))
  => LET T == call.input
         c == call.cursorStart
         k == LastWidth(T, c)
     IN /\ ret.r.nextText = SubSeq(T, 1, c - k) \o SubSeq(T, c + 1, Len(T))
        /\ ret.r.nextCursor = c - k
        /\ Len(CodePoints(SubSeq(ret.r.nextText, 1, ret.r.nextCursor)))
             = Len(CodePoints(SubSeq(T, 1, c))) - 1

C5_Witness ==
  /\ CaretCall
  /\ call.cursorStart >= 2
  /\ call.cursorStart < Len(call.input)
  /\ call.input[call.cursorStart] \in LowSurrogates
  /\ call.input[call.cursorStart - 1] \in HighSurrogates
  /\ ret.r.nextCursor = call.cursorStart - 2

\* C6: for 0 <= s < e <= length(T), deleteOneGrapheme(T, s, e) gives
\* T[0:s] + T[e:] and the cursor s, with no code-point trimming.
C6_DeleteRemovesRange ==
  (ret.fn = "deleteOneGrapheme" /\ 0 <= call.cursorStart
     /\ call.cursorStart < call.cursorEnd /\ call.cursorEnd <= Len(call.input))
  => /\ ret.r.nextText = SubSeq(call.input, 1, call.cursorStart)
                         \o SubSeq(call.input, call.cursorEnd + 1, Len(call.input))
     /\ ret.r.nextCursor = call.cursorStart

\* a range that starts right after the high half of a pair
C6_Witness ==
  /\ ret.fn = "deleteOneGrapheme"
  /\ call.cursorStart >= 1
  /\ call.cursorStart < call.cursorEnd
  /\ call.cursorEnd < Len(call.input)
  /\ call.input[call.cursorStart] \in HighSurrogates
  /\ Len(ret.r.nextText) = Len(call.input) - (call.cursorEnd - call.cursorStart)

\* C7: deleteOneGrapheme(T, 0, 0) returns T and cursor 0, and handleBackspace
\* with selection (0,0) leaves value and selection unchanged.
C7_BackspaceAtStartIsNoOp ==
  /\ (CaretCall /\ call.cursorStart = 0)
       => ret.r = [nextText |-> call.input, nextCursor |-> 0]
  /\ (last.op = "backspace" /\ last.selection = Caret(0))
       => (value = last.value /\ selection = last.selection)

C7_Witness ==
  /\ CaretCall
  /\ call.cursorStart = 0
  /\ Len(call.input) > 0
  /\ last.op = "backspace"
  /\ last.selection = Caret(0)
  /\ Len(last.value) > 0

C9_FilterIdempotent ==
  ret.fn = "filterNonEmoji twice" => ret.out = ret.first

\* two lone halves that the first pass brings together
C9_Witness ==
  /\ ret.fn = "filterNonEmoji twice"
  /\ call.text = <<55357, 122, 56832>>
  /\ ret.first = <<55357, 56832>>

\* C10: after any sequence of keyboard insertions, backspaces and filtered
\* system text changes the value holds no ASCII letter, ASCII digit, Hangul
\* syllable or Hangul Jamo code unit.
C10_ValueHasNoDisallowedUnit ==
  \A i \in 1..Len(value) : value[i] \notin Disallowed

\* a text change that carried a letter and left a lone surrogate
C10_Witness ==
  /\ last.op = "changeText"
  /\ \E i \in 1..Len(last.arg) : last.arg[i] \in Disallowed
  /\ HasLoneSurrogate(value)

====
